---- MODULE Spec2Model ----
(***************************************************************************)
(* Worker pools, cluster supervision and shutdown in the Node.js interview *)
(* guide.  Five independent example programs are modelled, each as a       *)
(* record holding the fields of its objects:                               *)
(*   wd  WorkerPool of examples/14-worker-threads/worker-demo.js           *)
(*       (one worker thread per task, fixed set of slots)                  *)
(*   pw  WorkerPool of 14-worker-threads (persistent workers, free list)   *)
(*   cp  WorkerPool of 12-child-process.md (forked processes, callbacks)   *)
(*   cl  master of examples/13-clustering/cluster-demo.js                  *)
(*   zd  master of 13-clustering.md "Zero-Downtime Restart"                *)
(* A behaviour is a run of one of the programs; prog says which.           *)
(***************************************************************************)
EXTENDS Integers, Sequences, FiniteSets, TLC

VARIABLES prog, wd, pw, cp, cl, zd, cc, cb, rt

vars == <<prog, wd, pw, cp, cl, zd, cc, cb, rt>>

\* ---------------------------------------------------------------- bounds
MaxPoolSize == 1
MaxCPUs == 2
MaxTasks == 3
MaxForks == 2
MaxSigterms == 2
\* requests the workers of cluster-demo.js serve in one run
MaxRequests == 2
\* items and concurrency limits given to concurrency(items, limit)
MaxItems == 3
MaxLimit == 2
\* CircuitBreaker: options.failureThreshold, options.timeout (clock ticks),
\* execute() calls in one run, and the clock's range
MaxThreshold == 2
MaxTimeout == 1
MaxCalls == 4
MaxTime == 2
\* retryOperation(operation, maxRetries), retryWithBackoff(fn, maxAttempts)
MaxAttempts == 4

\* process ids a pool can hand out: its initial workers and MaxForks later ones
MaxProcs == MaxPoolSize + MaxForks
Pids == 1..MaxProcs

\* the same for the cluster masters, which start one worker per CPU
CLMaxProcs == MaxCPUs + MaxForks
CLPids == 1..CLMaxProcs
CPUs == 1..MaxCPUs

Slots == 1..MaxPoolSize
PoolSizes == 1..MaxPoolSize
Tasks == 1..MaxTasks

\* ------------------------------------------------------------- utilities
RECURSIVE SeqToSet(_)
SeqToSet(s) == IF s = <<>> THEN {} ELSE {Head(s)} \cup SeqToSet(Tail(s))

\* Array.prototype.find over indices: the lowest index satisfying P, 0 if none
FindFirst(n, P(_)) ==
  IF \E i \in 1..n : P(i) THEN CHOOSE i \in 1..n : P(i) /\ \A j \in 1..(i-1) : ~P(j)
  ELSE 0

\* A promise settles once: resolve/reject on a settled promise is ignored
Settle(st, outcome) == IF st = "pending" THEN outcome ELSE st

\* =========================================================================
\* worker-demo.js : WorkerPool (Example 3)
\* =========================================================================

\* the inputs execute() is called with, by what the worker branch does on them
WDKinds == {"fib", "fibAndAggregate", "fibBadAggregate", "badAggregate", "empty"}

\* The worker branch of worker-demo.js as the events the main thread sees
WorkerScript(kind) ==
  CASE kind = "fib"             -> <<"message", "exit0">>
    [] kind = "fibAndAggregate" -> <<"message", "message", "exit0">>
    [] kind = "fibBadAggregate" -> <<"message", "error", "exit1">>
    [] kind = "badAggregate"    -> <<"error", "exit1">>
    [] OTHER                    -> <<"exit0">>

\* constructor(workerScript, poolSize): poolSize slots { worker: null, busy: false }
WDInit(poolSize) ==
  [ poolSize |-> poolSize,
    workers  |-> [s \in 1..poolSize |-> [worker |-> 0, busy |-> FALSE]],
    queue    |-> <<>>,
    submitted|-> 0,
    promise  |-> [t \in Tasks |-> "none"],
    thread   |-> [t \in Tasks |-> "none"],
    events   |-> [t \in Tasks |-> <<>>],
    slotOf   |-> [t \in Tasks |-> 0],
    exitCode |-> [t \in Tasks |-> -1],
    settles  |-> [t \in Tasks |-> 0],
    termPc   |-> 0,
    termWait |-> 0 ]

\* runTask(workerSlot, task): mark the slot busy and create a Worker for the
\* task (task is { data, resolve, reject }; t names its promise)
WDrunTask(st, s, task) ==
  LET t == task.task IN
  [st EXCEPT !.workers[s].busy = TRUE,
             !.workers[s].worker = t,
             !.thread[t] = "live",
             !.events[t] = WorkerScript(task.data),
             !.slotOf[t] = s]

\* (variant: the slot is released without looking at the queue)
WDfinishTaskNoDequeue(st, s) ==
  [st EXCEPT !.workers[s].busy = FALSE, !.workers[s].worker = 0]

\* finishTask(workerSlot)
WDfinishTask(st, s) ==
  LET freed == [st EXCEPT !.workers[s].busy = FALSE, !.workers[s].worker = 0]
  IN IF Len(freed.queue) > 0
     THEN WDrunTask([freed EXCEPT !.queue = Tail(@)], s, Head(freed.queue))
     ELSE freed

\* task.resolve / task.reject
WDsettle(st, t, outcome) ==
  [st EXCEPT !.promise[t] = Settle(@, outcome),
             !.settles[t] = IF st.promise[t] = "pending" THEN @ + 1 ELSE @]

\* execute(data)
WDexecuteOp(st, data) ==
  LET t == st.submitted + 1
      task == [data |-> data, task |-> t]
      st1 == [st EXCEPT !.submitted = t, !.promise[t] = "pending"]
      available == FindFirst(Len(st1.workers), LAMBDA i : ~st1.workers[i].busy)
  IN IF available # 0 THEN WDrunTask(st1, available, task)
     ELSE [st1 EXCEPT !.queue = Append(@, task)]

WDExecute ==
  /\ prog = "wd"
  /\ wd.submitted < MaxTasks
  /\ \E data \in WDKinds : wd' = WDexecuteOp(wd, data)
  /\ UNCHANGED <<prog, pw, cp, cl, zd, cc, cb, rt>>

WDNextEvent(t, ev) ==
  /\ wd.thread[t] = "live"
  /\ wd.events[t] # <<>>
  /\ Head(wd.events[t]) = ev

WDpop(st, t) == [st EXCEPT !.events[t] = Tail(@)]

\* worker.on('message')
WDMessage(t) ==
  /\ prog = "wd"
  /\ WDNextEvent(t, "message")
  /\ wd' = WDfinishTask(WDsettle(WDpop(wd, t), t, "resolved"), wd.slotOf[t])
  /\ UNCHANGED <<prog, pw, cp, cl, zd, cc, cb, rt>>

\* worker.on('error')
WDError(t) ==
  /\ prog = "wd"
  /\ WDNextEvent(t, "error")
  /\ wd' = WDfinishTask(WDsettle(WDpop(wd, t), t, "rejected"), wd.slotOf[t])
  /\ UNCHANGED <<prog, pw, cp, cl, zd, cc, cb, rt>>

\* worker.on('exit')
WDonExit(st, t, code) ==
  LET gone == [st EXCEPT !.thread[t] = "exited", !.events[t] = <<>>,
                         !.slotOf[t] = 0, !.exitCode[t] = code]
  IN IF code # 0 THEN WDsettle(gone, t, "rejected") ELSE gone

WDExit(t) ==
  /\ prog = "wd"
  /\ \E code \in {0, 1} :
       /\ WDNextEvent(t, IF code = 0 THEN "exit0" ELSE "exit1")
       /\ wd' = WDonExit(wd, t, code)
  /\ UNCHANGED <<prog, pw, cp, cl, zd, cc, cb, rt>>

\* terminate(): the for loop runs up to the next slot that holds a worker,
\* calls worker.terminate() on it (the thread then exits with code 1) and
\* awaits its exit
WDnextSlotWithWorker(st, from) ==
  IF \E j \in from..Len(st.workers) : st.workers[j].worker # 0
  THEN CHOOSE j \in from..Len(st.workers) :
         st.workers[j].worker # 0 /\ \A k \in from..(j-1) : st.workers[k].worker = 0
  ELSE Len(st.workers) + 1

WDterminateFrom(st, from) ==
  LET j == WDnextSlotWithWorker(st, from)
  IN IF j > Len(st.workers) THEN [st EXCEPT !.termPc = j, !.termWait = 0]
     ELSE LET w == st.workers[j].worker
          IN [st EXCEPT !.termPc = j, !.termWait = w,
                        !.events[w] = IF st.thread[w] = "live" THEN <<"exit1">> ELSE @]

WDTerminate ==
  /\ prog = "wd"
  /\ wd.termPc = 0
  /\ wd' = WDterminateFrom(wd, 1)
  /\ UNCHANGED <<prog, pw, cp, cl, zd, cc, cb, rt>>

WDTerminateResume ==
  /\ prog = "wd"
  /\ wd.termPc \in 1..Len(wd.workers)
  /\ wd.thread[wd.termWait] = "exited"
  /\ wd' = WDterminateFrom(wd, wd.termPc + 1)
  /\ UNCHANGED <<prog, pw, cp, cl, zd, cc, cb, rt>>

NextWD ==
  \/ WDExecute
  \/ \E t \in Tasks : WDMessage(t)
  \/ \E t \in Tasks : WDError(t)
  \/ \E t \in Tasks : WDExit(t)
  \/ WDTerminate
  \/ WDTerminateResume


\* =========================================================================
\* 12-child-process.md : WorkerPool (Worker Pool Pattern)
\* =========================================================================

\* what the forked worker script answers to one task it was sent
CPKinds == {"result", "error", "twice"}

WorkerReplies(t, kind) ==
  CASE kind = "result" -> <<[task |-> t, reply |-> "result"]>>
    [] kind = "error"  -> <<[task |-> t, reply |-> "error"]>>
    [] OTHER           -> <<[task |-> t, reply |-> "result"],
                            [task |-> t, reply |-> "result"]>>

\* createWorker(): fork a process and push { process, busy: false }
CPcreateWorker(st) ==
  LET pid == st.forked + 1
  IN [st EXCEPT !.forked = pid,
                !.proc[pid] = "alive",
                !.workers = Append(@, [pid |-> pid, busy |-> FALSE, callback |-> 0])]

RECURSIVE CPconstruct(_, _)
CPconstruct(st, n) == IF n = 0 THEN st ELSE CPconstruct(CPcreateWorker(st), n - 1)

\* constructor(size, workerScript)
CPInit(size) ==
  CPconstruct(
    [ size      |-> size,
      workers   |-> <<>>,
      queue     |-> <<>>,
      submitted |-> 0,
      calls     |-> [t \in Tasks |-> 0],
      forked    |-> 0,
      proc      |-> [p \in Pids |-> "none"],
      inbox     |-> [p \in Pids |-> <<>>],
      killed    |-> {},
      destroyed |-> FALSE ], size)

\* worker.busy = true; worker.callback = callback; worker.process.send(task)
\* (task is the kind of reply the worker script gives, callback the task id)
CPassign(st, i, task, callback) ==
  LET pid == st.workers[i].pid
  IN [st EXCEPT !.workers[i].busy = TRUE,
                !.workers[i].callback = callback,
                !.inbox[pid] = IF st.proc[pid] = "alive"
                               THEN @ \o WorkerReplies(callback, task) ELSE @]

\* runTask(task, callback)
CPrunTask(st, task) ==
  LET callback == st.submitted + 1
      st1 == [st EXCEPT !.submitted = callback]
      worker == FindFirst(Len(st1.workers), LAMBDA i : ~st1.workers[i].busy)
  IN IF worker # 0 THEN CPassign(st1, worker, task, callback)
     ELSE [st1 EXCEPT !.queue = Append(@, [task |-> task, callback |-> callback])]

\* processQueue()
CPprocessQueue(st) ==
  IF Len(st.queue) = 0 THEN st
  ELSE LET worker == FindFirst(Len(st.workers), LAMBDA i : ~st.workers[i].busy)
       IN IF worker # 0
          THEN CPassign([st EXCEPT !.queue = Tail(@)], worker,
                        Head(st.queue).task, Head(st.queue).callback)
          ELSE st

\* this.workers.indexOf(worker), 1-based; 0 when absent
CPindexOf(st, pid) == FindFirst(Len(st.workers), LAMBDA i : st.workers[i].pid = pid)

\* worker.callback(err, result): the caller's callback runs synchronously and
\* may itself submit a task (resubmit names its kind, "none" for no submission)
CPcallback(st, t, reply, resubmit) ==
  LET st1 == [st EXCEPT !.calls[t] = @ + 1]
  IN IF resubmit # "none" /\ st1.submitted < MaxTasks
     THEN CPrunTask(st1, resubmit) ELSE st1

\* worker.process.on('message')
CPonMessage(st, pid, resubmit) ==
  LET i   == CPindexOf(st, pid)
      msg == Head(st.inbox[pid])
      st1 == [st EXCEPT !.inbox[pid] = Tail(@), !.workers[i].busy = FALSE]
  IN CPprocessQueue(CPcallback(st1, st1.workers[i].callback, msg.reply, resubmit))

CPMessage(pid) ==
  /\ prog = "cp"
  /\ cp.proc[pid] = "alive"
  /\ cp.inbox[pid] # <<>>
  /\ \E resubmit \in CPKinds \cup {"none"} : cp' = CPonMessage(cp, pid, resubmit)
  /\ UNCHANGED <<prog, wd, pw, cl, zd, cc, cb, rt>>

\* splice(index, 1) with index from indexOf: -1 removes the last element
CPsplice(ws, i) ==
  LET k == IF i = 0 THEN Len(ws) ELSE i
  IN SubSeq(ws, 1, k - 1) \o SubSeq(ws, k + 1, Len(ws))

\* worker.process.on('exit')
CPonExit(st, pid) ==
  LET index == CPindexOf(st, pid)
      st1 == [st EXCEPT !.proc[pid] = "exited",
                        !.inbox[pid] = <<>>,
                        !.killed = @ \ {pid},
                        !.workers = CPsplice(@, index)]
  IN CPcreateWorker(st1)

\* a worker process exits: it crashed, or it was killed by destroy()
CPExit(pid) ==
  /\ prog = "cp"
  /\ cp.proc[pid] = "alive"
  /\ cp.forked < cp.size + MaxForks
  /\ cp' = CPonExit(cp, pid)
  /\ UNCHANGED <<prog, wd, pw, cl, zd, cc, cb, rt>>

CPSubmit ==
  /\ prog = "cp"
  /\ cp.submitted < MaxTasks
  /\ \E kind \in CPKinds : cp' = CPrunTask(cp, kind)
  /\ UNCHANGED <<prog, wd, pw, cl, zd, cc, cb, rt>>

\* destroy(): this.workers.forEach(w => w.process.kill())
CPdestroy(st) ==
  [st EXCEPT !.destroyed = TRUE,
             !.killed = @ \cup {st.workers[i].pid : i \in 1..Len(st.workers)}]

CPDestroy ==
  /\ prog = "cp"
  /\ ~cp.destroyed
  /\ cp' = CPdestroy(cp)
  /\ UNCHANGED <<prog, wd, pw, cl, zd, cc, cb, rt>>

NextCP ==
  \/ CPSubmit
  \/ \E pid \in Pids : CPMessage(pid)
  \/ \E pid \in Pids : CPExit(pid)
  \/ CPDestroy


\* =========================================================================
\* 14-worker-threads : WorkerPool (worker-pool.js, persistent workers)
\* =========================================================================

\* runTask({ number: n }) and runTask(null): task-worker.js reads data.number
PWKinds == {"number", "null"}

\* task-worker.js on one posted task, as the events the main thread sees
TaskWorkerScript(kind) ==
  IF kind = "number" THEN <<"message">> ELSE <<"error", "exit">>

\* the events of a worker thread, each with the task whose run produced it
\* (0 for the exit that follows terminate())
PWEventsOf(t, script) == [i \in 1..Len(script) |-> [ev |-> script[i], task |-> t]]

\* addWorker(): new Worker, handlers, push on workers and freeWorkers
PWaddWorker(st) ==
  LET w == Len(st.workers) + 1
  IN [st EXCEPT !.workers = Append(@, w),
                !.freeWorkers = Append(@, w),
                !.thread[w] = "alive"]

RECURSIVE PWconstruct(_, _)
PWconstruct(st, n) == IF n = 0 THEN st ELSE PWconstruct(PWaddWorker(st), n - 1)

\* constructor(workerScript, poolSize)
PWInit(poolSize) ==
  PWconstruct(
    [ poolSize    |-> poolSize,
      workers     |-> <<>>,
      freeWorkers |-> <<>>,
      queue       |-> <<>>,
      currentTask |-> [w \in Slots |-> 0],
      thread      |-> [w \in Slots |-> "none"],
      events      |-> [w \in Slots |-> <<>>],
      submitted   |-> 0,
      data        |-> [t \in Tasks |-> "none"],
      promise     |-> [t \in Tasks |-> "none"],
      settles     |-> [t \in Tasks |-> 0],
      closed      |-> FALSE,
      closedAt    |-> 0,
      uncaught    |-> FALSE ], poolSize)

\* runTaskOnWorker(worker, task); a thread that has thrown or exited posts nothing
PWrunTaskOnWorker(st, w, t) ==
  [st EXCEPT !.currentTask[w] = t,
             !.events[w] = IF st.thread[w] = "alive"
                           THEN @ \o PWEventsOf(t, TaskWorkerScript(st.data[t])) ELSE @,
             !.thread[w] = IF @ = "alive" /\ st.data[t] = "null" THEN "failing" ELSE @]

\* this.freeWorkers.pop() takes the last element
PWpopFree(st) == [st EXCEPT !.freeWorkers = SubSeq(@, 1, Len(@) - 1)]

\* runTask(data)
PWrunTask(st, kind) ==
  LET t == st.submitted + 1
      st1 == [st EXCEPT !.submitted = t, !.data[t] = kind, !.promise[t] = "pending"]
  IN IF Len(st1.freeWorkers) > 0
     THEN PWrunTaskOnWorker(PWpopFree(st1), st1.freeWorkers[Len(st1.freeWorkers)], t)
     ELSE [st1 EXCEPT !.queue = Append(@, t)]

\* runNext()
PWrunNext(st) ==
  IF Len(st.queue) = 0 THEN st
  ELSE IF Len(st.freeWorkers) > 0
       THEN PWrunTaskOnWorker([PWpopFree(st) EXCEPT !.queue = Tail(@)],
                              st.freeWorkers[Len(st.freeWorkers)], Head(st.queue))
       ELSE st

PWsettle(st, t, outcome) ==
  [st EXCEPT !.promise[t] = Settle(@, outcome),
             !.settles[t] = IF st.promise[t] = "pending" THEN @ + 1 ELSE @]

\* the 'message' handler without `worker.currentTask = null`
PWonMessageKeepTask(st, w) ==
  IF st.currentTask[w] = 0 THEN [st EXCEPT !.uncaught = TRUE]
  ELSE PWrunNext([PWsettle(st, st.currentTask[w], "resolved")
                    EXCEPT !.freeWorkers = Append(@, w)])

\* worker.on('message'): worker.currentTask.resolve throws when currentTask is null
PWonMessage(st, w) ==
  IF st.currentTask[w] = 0 THEN [st EXCEPT !.uncaught = TRUE]
  ELSE PWrunNext([PWsettle(st, st.currentTask[w], "resolved")
                    EXCEPT !.currentTask[w] = 0,
                           !.freeWorkers = Append(@, w)])

\* worker.on('error')
PWonError(st, w) ==
  IF st.currentTask[w] # 0
  THEN [PWsettle(st, st.currentTask[w], "rejected") EXCEPT !.currentTask[w] = 0]
  ELSE st

PWNextEvent(w, ev) ==
  /\ ~pw.uncaught
  /\ pw.thread[w] \in {"alive", "failing"}
  /\ pw.events[w] # <<>>
  /\ Head(pw.events[w]).ev = ev

PWpop(st, w) == [st EXCEPT !.events[w] = Tail(@)]

PWRunTask ==
  /\ prog = "pw"
  /\ ~pw.uncaught
  /\ pw.submitted < MaxTasks
  /\ \E kind \in PWKinds : pw' = PWrunTask(pw, kind)
  /\ UNCHANGED <<prog, wd, cp, cl, zd, cc, cb, rt>>

PWMessage(w) ==
  /\ prog = "pw"
  /\ PWNextEvent(w, "message")
  /\ pw' = PWonMessage(PWpop(pw, w), w)
  /\ UNCHANGED <<prog, wd, cp, cl, zd, cc, cb, rt>>

PWError(w) ==
  /\ prog = "pw"
  /\ PWNextEvent(w, "error")
  /\ pw' = PWonError(PWpop(pw, w), w)
  /\ UNCHANGED <<prog, wd, cp, cl, zd, cc, cb, rt>>

\* the thread ends (after its error, or terminated); the pool registers no 'exit' handler
PWExit(w) ==
  /\ prog = "pw"
  /\ PWNextEvent(w, "exit")
  /\ pw' = [pw EXCEPT !.thread[w] = "exited", !.events[w] = <<>>]
  /\ UNCHANGED <<prog, wd, cp, cl, zd, cc, cb, rt>>

\* close(): worker.terminate() on every worker
PWclose(st) ==
  [st EXCEPT !.closed = TRUE,
             !.closedAt = st.submitted,
             !.events = [w \in Slots |->
                           IF st.thread[w] \in {"alive", "failing"}
                           THEN PWEventsOf(0, <<"exit">>) ELSE <<>>]]

PWClose ==
  /\ prog = "pw"
  /\ ~pw.uncaught
  /\ ~pw.closed
  /\ pw' = PWclose(pw)
  /\ UNCHANGED <<prog, wd, cp, cl, zd, cc, cb, rt>>

NextPW ==
  \/ PWRunTask
  \/ \E w \in Slots : PWMessage(w)
  \/ \E w \in Slots : PWError(w)
  \/ \E w \in Slots : PWExit(w)
  \/ PWClose


\* =========================================================================
\* cluster-demo.js : master process and its workers
\* =========================================================================

\* cluster.fork() followed by workers.set(pid, { worker, requests: 0, startTime })
CLfork(st) ==
  LET pid == st.forked + 1
  IN [st EXCEPT !.forked = pid,
                !.state[pid] = "listening",
                !.workers = @ \cup {pid},
                !.requests[pid] = 0]

RECURSIVE CLstart(_, _)
CLstart(st, n) == IF n = 0 THEN st ELSE CLstart(CLfork(st), n - 1)

\* numCPUs workers are forked at startup
CLInit(numCPUs) ==
  CLstart(
    [ numCPUs    |-> numCPUs,
      workers    |-> {},
      forked     |-> 0,
      state      |-> [p \in CLPids |-> "none"],
      shutdownMsgs |-> [p \in CLPids |-> 0],
      killTimers |-> [p \in CLPids |-> 0],
      forceTimers|-> [p \in CLPids |-> 0],
      killed     |-> {},
      crashes    |-> 0,
      sigterms   |-> 0,
      requests   |-> [p \in CLPids |-> 0],
      requestMsgs|-> [p \in CLPids |-> 0],
      served     |-> 0 ], numCPUs)

CLAlive(st) == {p \in CLPids : st.state[p] \in {"listening", "closing"}}

\* cluster.on('exit'): delete the worker, always fork a new one.  What is
\* still addressed to the dead worker is dropped with it: a 'shutdown' message
\* is never delivered, its own timers die, and the master's pending
\* worker.kill() timers fire without effect
CLonExit(st, pid) ==
  CLfork([st EXCEPT !.state[pid] = "exited",
                    !.shutdownMsgs[pid] = 0,
                    !.forceTimers[pid] = 0,
                    !.killTimers[pid] = 0,
                    !.killed = @ \ {pid},
                    !.requests[pid] = 0,
                    !.workers = @ \ {pid}])

\* a worker dies on its own (uncaught exception, OOM, external signal)
CLCrash(pid) ==
  /\ prog = "cl"
  /\ pid \in CLAlive(cl)
  /\ cl.forked < cl.numCPUs + MaxForks
  /\ cl' = CLonExit([cl EXCEPT !.crashes = @ + 1], pid)
  /\ UNCHANGED <<prog, wd, pw, cp, zd, cc, cb, rt>>

\* process.on('SIGTERM') in the master
CLonSigterm(st) ==
  [st EXCEPT !.sigterms = @ + 1,
             !.shutdownMsgs = [p \in CLPids |-> IF p \in st.workers THEN @[p] + 1 ELSE @[p]],
             !.killTimers   = [p \in CLPids |-> IF p \in st.workers THEN @[p] + 1 ELSE @[p]]]

CLSigterm ==
  /\ prog = "cl"
  /\ cl.sigterms < MaxSigterms
  /\ cl' = CLonSigterm(cl)
  /\ UNCHANGED <<prog, wd, pw, cp, zd, cc, cb, rt>>

\* process.on('message') in a worker: msg === 'shutdown'
CLonShutdownMsg(st, pid) ==
  [st EXCEPT !.shutdownMsgs[pid] = @ - 1,
             !.state[pid] = "closing",
             !.forceTimers[pid] = @ + 1]

CLShutdownMsg(pid) ==
  /\ prog = "cl"
  /\ pid \in CLAlive(cl)
  /\ cl.shutdownMsgs[pid] > 0
  /\ cl' = CLonShutdownMsg(cl, pid)
  /\ UNCHANGED <<prog, wd, pw, cp, zd, cc, cb, rt>>

\* the worker leaves: server.close callback (exit 0), its force timer (exit 1),
\* or the signal sent by the master's worker.kill()
CLWorkerExit(pid) ==
  /\ prog = "cl"
  /\ pid \in CLAlive(cl)
  /\ \/ cl.state[pid] = "closing"
     \/ pid \in cl.killed
  /\ cl.forked < cl.numCPUs + MaxForks
  /\ cl' = CLonExit(cl, pid)
  /\ UNCHANGED <<prog, wd, pw, cp, zd, cc, cb, rt>>

\* setTimeout(() => worker.kill(), 5000) fires in the master
CLonKillTimer(st, pid) ==
  [st EXCEPT !.killTimers[pid] = @ - 1,
             !.killed = @ \cup {pid}]

CLKillTimer(pid) ==
  /\ prog = "cl"
  /\ cl.killTimers[pid] > 0
  /\ cl' = CLonKillTimer(cl, pid)
  /\ UNCHANGED <<prog, wd, pw, cp, zd, cc, cb, rt>>

\* the worker's http handler: process.send({ cmd: 'request' })
CLRequest(pid) ==
  /\ prog = "cl"
  /\ pid \in CLAlive(cl)
  /\ cl.served < MaxRequests
  /\ cl' = [cl EXCEPT !.served = @ + 1, !.requestMsgs[pid] = @ + 1]
  /\ UNCHANGED <<prog, wd, pw, cp, zd, cc, cb, rt>>

\* the 'message' handler without the `if (workerInfo)` test
CLonRequestNoLookup(st, pid) ==
  [st EXCEPT !.requests[pid] = @ + 1]

\* cluster.on('message') with msg.cmd === 'request'
CLonRequest(st, pid) ==
  IF pid \in st.workers THEN [st EXCEPT !.requests[pid] = @ + 1] ELSE st

\* the master receives a worker's message; the IPC channel may deliver it
\* after the worker's 'exit' event
CLRequestMsg(pid) ==
  /\ prog = "cl"
  /\ cl.requestMsgs[pid] > 0
  /\ cl' = CLonRequest([cl EXCEPT !.requestMsgs[pid] = @ - 1], pid)
  /\ UNCHANGED <<prog, wd, pw, cp, zd, cc, cb, rt>>

NextCL ==
  \/ \E pid \in CLPids : CLCrash(pid)
  \/ CLSigterm
  \/ \E pid \in CLPids : CLShutdownMsg(pid)
  \/ \E pid \in CLPids : CLWorkerExit(pid)
  \/ \E pid \in CLPids : CLKillTimer(pid)


\* =========================================================================
\* 13-clustering.md : Zero-Downtime Restart (master)
\* =========================================================================

\* createWorker(): cluster.fork() and workers.push(worker)
ZDcreateWorker(st) ==
  LET pid == st.forked + 1
  IN [st EXCEPT !.forked = pid,
                !.state[pid] = "starting",
                !.workers = Append(@, pid)]

RECURSIVE ZDstart(_, _)
ZDstart(st, n) == IF n = 0 THEN st ELSE ZDstart(ZDcreateWorker(st), n - 1)

\* the initial workers have been forked and are listening
ZDInit(numCPUs) ==
  LET st == ZDstart(
        [ numCPUs  |-> numCPUs,
          workers  |-> <<>>,
          forked   |-> 0,
          state    |-> [p \in CLPids |-> "none"],
          exitedAfterDisconnect |-> [p \in CLPids |-> FALSE],
          leaving  |-> {},
          chains   |-> <<>>,
          restartForks |-> 0,
          retiredExits |-> 0,
          crashes  |-> 0 ], numCPUs)
  IN [st EXCEPT !.state = [p \in CLPids |-> IF st.state[p] = "starting" THEN "listening" ELSE "none"]]

ZDAlive(st) == {p \in CLPids : st.state[p] \in {"starting", "listening"}}

\* worker.disconnect() in the master: flags the worker; a live worker then leaves
ZDdisconnect(st, pid) ==
  [st EXCEPT !.exitedAfterDisconnect[pid] = TRUE,
             !.leaving = IF pid \in ZDAlive(st) THEN @ \cup {pid} ELSE @]

\* (variant: the old worker is disconnected as soon as its replacement is forked)
ZDrestartNextKillFirst(st, c) ==
  LET ch == st.chains[c]
  IN IF Len(ch.workersToRestart) = 0
     THEN [st EXCEPT !.chains[c].stage = "done"]
     ELSE LET st1 == ZDdisconnect(ZDcreateWorker(st), Head(ch.workersToRestart))
          IN [st1 EXCEPT !.restartForks = @ + 1,
                         !.chains[c] = [workersToRestart |-> Tail(ch.workersToRestart),
                                        worker    |-> Head(ch.workersToRestart),
                                        newWorker |-> st1.forked,
                                        stage     |-> "waitListening"]]

\* restartNext() of the restart numbered c
ZDrestartNext(st, c) ==
  LET ch == st.chains[c]
  IN IF Len(ch.workersToRestart) = 0
     THEN [st EXCEPT !.chains[c].stage = "done"]
     ELSE LET st1 == ZDcreateWorker(st)
          IN [st1 EXCEPT !.restartForks = @ + 1,
                         !.chains[c] = [workersToRestart |-> Tail(ch.workersToRestart),
                                        worker    |-> Head(ch.workersToRestart),
                                        newWorker |-> st1.forked,
                                        stage     |-> "waitListening"]]

\* restartWorkers(): workersToRestart = [...workers]; restartNext()
ZDrestartWorkers(st) ==
  ZDrestartNext([st EXCEPT !.chains = Append(@, [workersToRestart |-> st.workers,
                                                 worker |-> 0, newWorker |-> 0,
                                                 stage |-> "new"])],
                Len(st.chains) + 1)

\* process.on('SIGUSR2')
ZDSigusr2 ==
  /\ prog = "zd"
  /\ zd.forked < zd.numCPUs + MaxForks
  /\ zd' = ZDrestartWorkers(zd)
  /\ UNCHANGED <<prog, wd, pw, cp, cl, cc, cb, rt>>

\* newWorker.once('listening'): worker.disconnect(); setTimeout(..., 1000)
RECURSIVE ZDonListening(_, _, _)
ZDonListening(st, pid, c) ==
  IF c > Len(st.chains) THEN st
  ELSE IF st.chains[c].stage = "waitListening" /\ st.chains[c].newWorker = pid
       THEN ZDonListening([ZDdisconnect(st, st.chains[c].worker)
                             EXCEPT !.chains[c].stage = "waitTimer"], pid, c + 1)
       ELSE ZDonListening(st, pid, c + 1)

ZDListening(pid) ==
  /\ prog = "zd"
  /\ zd.state[pid] = "starting"
  /\ zd' = ZDonListening([zd EXCEPT !.state[pid] = "listening"], pid, 1)
  /\ UNCHANGED <<prog, wd, pw, cp, cl, cc, cb, rt>>

\* the 1000 ms timer: worker.kill(); restartNext()
ZDonTimer(st, c) == ZDrestartNext(ZDdisconnect(st, st.chains[c].worker), c)

ZDTimer(c) ==
  /\ prog = "zd"
  /\ c \in 1..Len(zd.chains)
  /\ zd.chains[c].stage = "waitTimer"
  /\ Len(zd.chains[c].workersToRestart) > 0 => zd.forked < zd.numCPUs + MaxForks
  /\ zd' = ZDonTimer(zd, c)
  /\ UNCHANGED <<prog, wd, pw, cp, cl, cc, cb, rt>>

\* workers.indexOf(worker), 1-based; 0 when absent
ZDindexOf(st, pid) == FindFirst(Len(st.workers), LAMBDA i : st.workers[i] = pid)

\* (variant: the handler restarts every worker that exits)
ZDonExitAlwaysFork(st, pid) ==
  LET index == ZDindexOf(st, pid)
      st1 == [st EXCEPT !.state[pid] = "exited",
                        !.leaving = @ \ {pid},
                        !.retiredExits = IF st.exitedAfterDisconnect[pid] THEN @ + 1 ELSE @,
                        !.workers = IF index # 0
                                    THEN SubSeq(@, 1, index - 1) \o SubSeq(@, index + 1, Len(@))
                                    ELSE @]
  IN IF st.forked < st.numCPUs + MaxForks THEN ZDcreateWorker(st1) ELSE st1

\* (variant: the handler never forks a replacement)
ZDonExitNeverFork(st, pid) ==
  LET index == ZDindexOf(st, pid)
  IN [st EXCEPT !.state[pid] = "exited",
                !.leaving = @ \ {pid},
                !.retiredExits = IF st.exitedAfterDisconnect[pid] THEN @ + 1 ELSE @,
                !.workers = IF index # 0
                            THEN SubSeq(@, 1, index - 1) \o SubSeq(@, index + 1, Len(@))
                            ELSE @]

\* cluster.on('exit')
ZDonExit(st, pid) ==
  LET index == ZDindexOf(st, pid)
      st1 == [st EXCEPT !.state[pid] = "exited",
                        !.leaving = @ \ {pid},
                        !.retiredExits = IF st.exitedAfterDisconnect[pid] THEN @ + 1 ELSE @,
                        !.workers = IF index # 0
                                    THEN SubSeq(@, 1, index - 1) \o SubSeq(@, index + 1, Len(@))
                                    ELSE @]
  IN IF ~st.exitedAfterDisconnect[pid] THEN ZDcreateWorker(st1) ELSE st1

\* a worker dies on its own
ZDCrash(pid) ==
  /\ prog = "zd"
  /\ pid \in ZDAlive(zd)
  /\ ~zd.exitedAfterDisconnect[pid] => zd.forked < zd.numCPUs + MaxForks
  /\ zd' = ZDonExit([zd EXCEPT !.crashes = @ + 1], pid)
  /\ UNCHANGED <<prog, wd, pw, cp, cl, cc, cb, rt>>

\* a disconnected or killed worker leaves
ZDLeave(pid) ==
  /\ prog = "zd"
  /\ pid \in ZDAlive(zd)
  /\ pid \in zd.leaving
  /\ zd' = ZDonExit(zd, pid)
  /\ UNCHANGED <<prog, wd, pw, cp, cl, cc, cb, rt>>

NextZD ==
  \/ ZDSigusr2
  \/ \E pid \in CLPids : ZDListening(pid)
  \/ \E c \in 1..MaxForks : ZDTimer(c)
  \/ \E pid \in CLPids : ZDCrash(pid)
  \/ \E pid \in CLPids : ZDLeave(pid)

\* =========================================================================
\* Async control flow : concurrency(items, limit)
\* =========================================================================

ItemValues == {"a", "b"}
Limits == 1..MaxLimit
Items == 1..MaxItems
ItemLists == UNION {[1..n -> ItemValues] : n \in 0..MaxItems}

\* the value processItem(item) resolves with
ProcessItem(item) == <<"processed", item>>

\* the call concurrency(items, limit) before its first statement; promises are
\* named by the index of their item
CCInit(items, limit) ==
  [ items     |-> items,
    limit     |-> limit,
    pc        |-> "start",
    next      |-> 1,
    task      |-> [i \in Items |-> "none"],
    calls     |-> [i \in Items |-> 0],
    value     |-> [i \in Items |-> <<>>],
    executing |-> <<>>,
    results   |-> <<>>,
    race      |-> {},
    returned  |-> <<>> ]

\* the state of a program that is not the one being run
CCNone == CCInit(<<>>, 1)

\* the for loop with `executing.length > limit` as its test
RECURSIVE CCloopOver(_)
CCloopOver(st) ==
  IF st.next > Len(st.items) THEN [st EXCEPT !.pc = "all"]
  ELSE LET i == st.next
           st1 == [st EXCEPT !.task[i] = "running",
                             !.calls[i] = @ + 1,
                             !.results = Append(@, i),
                             !.executing = Append(@, i),
                             !.next = i + 1]
       IN IF Len(st1.executing) > st1.limit
          THEN [st1 EXCEPT !.pc = "race", !.race = SeqToSet(st1.executing)]
          ELSE CCloopOver(st1)

\* the for loop from its current item up to the next await: processItem(item)
\* is called, the promise pushed on results and executing, and the function
\* awaits Promise.race(executing) once executing.length >= limit; after the
\* last item it awaits Promise.all(results)
RECURSIVE CCloop(_)
CCloop(st) ==
  IF st.next > Len(st.items) THEN [st EXCEPT !.pc = "all"]
  ELSE LET i == st.next
           st1 == [st EXCEPT !.task[i] = "running",
                             !.calls[i] = @ + 1,
                             !.results = Append(@, i),
                             !.executing = Append(@, i),
                             !.next = i + 1]
       IN IF Len(st1.executing) >= st1.limit
          THEN [st1 EXCEPT !.pc = "race", !.race = SeqToSet(st1.executing)]
          ELSE CCloop(st1)

\* executing.indexOf(promise), 0 when absent (JavaScript -1)
CCindexOf(seq, i) ==
  IF i \in SeqToSet(seq) THEN CHOOSE k \in 1..Len(seq) : seq[k] = i ELSE 0

\* executing.splice(index, 1); index -1 removes the last element
CCsplice(seq, k) ==
  IF seq = <<>> THEN seq
  ELSE LET at == IF k = 0 THEN Len(seq) ELSE k
       IN SubSeq(seq, 1, at - 1) \o SubSeq(seq, at + 1, Len(seq))

\* the call of concurrency(items, limit) runs up to its first await
CCCall ==
  /\ prog = "cc"
  /\ cc.pc = "start"
  /\ cc' = CCloop(cc)
  /\ UNCHANGED <<prog, wd, pw, cp, cl, zd, cb, rt>>

\* processItem(item) finishes: its promise is fulfilled
CCSettle(i) ==
  /\ prog = "cc"
  /\ cc.task[i] = "running"
  /\ cc' = [cc EXCEPT !.task[i] = "settled"]
  /\ UNCHANGED <<prog, wd, pw, cp, cl, zd, cb, rt>>

\* the .then callback: splice the promise out of executing, return the result
CCThen(i) ==
  /\ prog = "cc"
  /\ cc.task[i] = "settled"
  /\ cc' = [cc EXCEPT !.task[i] = "done",
                      !.value[i] = ProcessItem(cc.items[i]),
                      !.executing = CCsplice(@, CCindexOf(@, i))]
  /\ UNCHANGED <<prog, wd, pw, cp, cl, zd, cb, rt>>

\* Promise.race(executing) has settled: the loop goes on
CCResume ==
  /\ prog = "cc"
  /\ cc.pc = "race"
  /\ \E i \in cc.race : cc.task[i] = "done"
  /\ cc' = CCloop([cc EXCEPT !.race = {}])
  /\ UNCHANGED <<prog, wd, pw, cp, cl, zd, cb, rt>>

\* Promise.all(results) is fulfilled: concurrency() returns the values in the
\* order of results
CCAll ==
  /\ prog = "cc"
  /\ cc.pc = "all"
  /\ \A k \in 1..Len(cc.results) : cc.task[cc.results[k]] = "done"
  /\ cc' = [cc EXCEPT !.pc = "done",
                      !.returned = [k \in 1..Len(cc.results) |-> cc.value[cc.results[k]]]]
  /\ UNCHANGED <<prog, wd, pw, cp, cl, zd, cb, rt>>

NextCC ==
  \/ CCCall
  \/ \E i \in Items : CCSettle(i)
  \/ \E i \in Items : CCThen(i)
  \/ CCResume
  \/ CCAll


\* =========================================================================
\* Error recovery : CircuitBreaker
\* =========================================================================

Thresholds == 1..MaxThreshold
Timeouts == 1..MaxTimeout
Calls == 1..MaxCalls

\* new CircuitBreaker(request, { failureThreshold, timeout }) at time 0
CBInit(failureThreshold, timeout) ==
  [ state            |-> "CLOSED",
    failureCount     |-> 0,
    successCount     |-> 0,
    nextAttempt      |-> 0,
    failureThreshold |-> failureThreshold,
    timeout          |-> timeout,
    now              |-> 0,
    started          |-> 0,
    requests         |-> 0,
    call             |-> [c \in Calls |-> "none"],
    trial            |-> [c \in Calls |-> FALSE] ]

\* the state of a program that is not the one being run
CBNone == CBInit(1, 1)

\* execute() up to `await this.request()`: refused while OPEN before
\* nextAttempt, otherwise the request is invoked (as HALF_OPEN if it was OPEN)
CBexecute(st, c) ==
  LET st1 == [st EXCEPT !.started = c]
  IN IF st.state = "OPEN" /\ st.now < st.nextAttempt
     THEN [st1 EXCEPT !.call[c] = "refused"]
     ELSE [st1 EXCEPT !.state = IF @ = "OPEN" THEN "HALF_OPEN" ELSE @,
                      !.trial[c] = (st.state = "OPEN"),
                      !.requests = @ + 1,
                      !.call[c] = "inflight"]

\* onSuccess()
CBonSuccess(st) ==
  [st EXCEPT !.failureCount = 0,
             !.state = IF @ = "HALF_OPEN" THEN "CLOSED" ELSE @]

\* onFailure()
CBonFailure(st) ==
  LET n == st.failureCount + 1
  IN IF n >= st.failureThreshold
     THEN [st EXCEPT !.failureCount = n, !.state = "OPEN",
                     !.nextAttempt = st.now + st.timeout]
     ELSE [st EXCEPT !.failureCount = n]

\* a caller invokes breaker.execute()
CBExecute ==
  /\ prog = "cb"
  /\ cb.started < MaxCalls
  /\ cb' = CBexecute(cb, cb.started + 1)
  /\ UNCHANGED <<prog, wd, pw, cp, cl, zd, cc, rt>>

\* the awaited request is fulfilled: onSuccess(), return response
CBSuccess(c) ==
  /\ prog = "cb"
  /\ cb.call[c] = "inflight"
  /\ cb' = [CBonSuccess(cb) EXCEPT !.call[c] = "returned"]
  /\ UNCHANGED <<prog, wd, pw, cp, cl, zd, cc, rt>>

\* the awaited request is rejected: onFailure(), throw err
CBFailure(c) ==
  /\ prog = "cb"
  /\ cb.call[c] = "inflight"
  /\ cb' = [CBonFailure(cb) EXCEPT !.call[c] = "thrown"]
  /\ UNCHANGED <<prog, wd, pw, cp, cl, zd, cc, rt>>

\* Date.now() advances
CBTick ==
  /\ prog = "cb"
  /\ cb.now < MaxTime
  /\ cb' = [cb EXCEPT !.now = @ + 1]
  /\ UNCHANGED <<prog, wd, pw, cp, cl, zd, cc, rt>>

NextCB ==
  \/ CBExecute
  \/ \E c \in Calls : CBSuccess(c)
  \/ \E c \in Calls : CBFailure(c)
  \/ CBTick

\* =========================================================================
\* Error recovery : retryOperation and retryWithBackoff
\* =========================================================================

\* `initialDelay = 1000` and the factor in `Math.pow(2, i) * 1000`
DefaultInitialDelay == 1000

RetryFns == {"retryOperation", "retryWithBackoff"}
Attempts == 0..MaxAttempts
InitialDelays == {250, DefaultInitialDelay}

RECURSIVE Pow2(_)
Pow2(i) == IF i = 0 THEN 1 ELSE 2 * Pow2(i - 1)

\* what the k-th invocation of the operation is fulfilled or rejected with
RTValue(k) == <<"value", k>>
RTError(k) == <<"error", k>>

\* the call before its first statement; `delay = initialDelay` in
\* retryWithBackoff; i counts the loop iterations that are complete
\* (i in retryOperation, attempt - 1 in retryWithBackoff)
RTInit(fn, max, initialDelay) ==
  [ fn      |-> fn,
    max     |-> max,
    delay   |-> initialDelay,
    pc      |-> "start",
    i       |-> 0,
    calls   |-> 0,
    log     |-> <<>>,
    delays  |-> <<>>,
    result  |-> <<>> ]

\* the state of a program that is not the one being run
RTNone == RTInit("retryOperation", 1, DefaultInitialDelay)

\* the loop test and `await operation()` / `await fn()`
RTloop(st) ==
  IF st.i < st.max
  THEN [st EXCEPT !.pc = "calling", !.calls = @ + 1]
  ELSE [st EXCEPT !.pc = "fellOff"]

\* `if (i === maxRetries)` in place of the test for the last attempt
RTisLastOff(st) == st.i = st.max

\* `if (i === maxRetries - 1)` / `if (attempt === maxAttempts)`
RTisLast(st) == st.i = st.max - 1

\* the delay awaited before the next attempt
RTdelayOf(st) ==
  IF st.fn = "retryOperation" THEN Pow2(st.i) * DefaultInitialDelay ELSE st.delay

\* catch (err): rethrow on the last attempt, otherwise start the timer
RTonReject(st) ==
  LET st1 == [st EXCEPT !.log = Append(@, "failed")]
  IN IF RTisLast(st1)
     THEN [st1 EXCEPT !.pc = "thrown", !.result = RTError(st.calls)]
     ELSE [st1 EXCEPT !.pc = "waiting", !.delays = Append(@, RTdelayOf(st1))]

\* the timer fires: `delay *= 2` in retryWithBackoff, then the next iteration
RTonTimer(st) ==
  RTloop([st EXCEPT !.i = @ + 1,
                    !.delay = IF st.fn = "retryWithBackoff" THEN 2 * @ ELSE @])

\* the function is called
RTCall ==
  /\ prog = "rt"
  /\ rt.pc = "start"
  /\ rt' = RTloop(rt)
  /\ UNCHANGED <<prog, wd, pw, cp, cl, zd, cc, cb>>

\* the operation's promise is fulfilled: `return await operation()`
RTFulfil ==
  /\ prog = "rt"
  /\ rt.pc = "calling"
  /\ rt' = [rt EXCEPT !.pc = "returned",
                      !.log = Append(@, "ok"),
                      !.result = RTValue(rt.calls)]
  /\ UNCHANGED <<prog, wd, pw, cp, cl, zd, cc, cb>>

\* the operation's promise is rejected
RTReject ==
  /\ prog = "rt"
  /\ rt.pc = "calling"
  /\ rt' = RTonReject(rt)
  /\ UNCHANGED <<prog, wd, pw, cp, cl, zd, cc, cb>>

\* setTimeout(resolve, delay) fires
RTTimer ==
  /\ prog = "rt"
  /\ rt.pc = "waiting"
  /\ rt' = RTonTimer(rt)
  /\ UNCHANGED <<prog, wd, pw, cp, cl, zd, cc, cb>>

NextRT ==
  \/ RTCall
  \/ RTFulfil
  \/ RTReject
  \/ RTTimer

\* =========================================================================
\* Specifications
\* =========================================================================

Init ==
  /\ prog \in {"wd", "pw", "cp", "cl", "zd", "cc", "cb", "rt"}
  /\ \E n \in (IF prog \in {"wd", "pw", "cp"} THEN PoolSizes ELSE {1}) :
        wd = WDInit(n) /\ pw = PWInit(n) /\ cp = CPInit(n)
  /\ \E n \in (IF prog \in {"cl", "zd"} THEN CPUs ELSE {1}) :
        cl = CLInit(n) /\ zd = ZDInit(n)
  /\ IF prog = "cc"
     THEN \E items \in ItemLists, limit \in Limits : cc = CCInit(items, limit)
     ELSE cc = CCNone
  /\ IF prog = "cb"
     THEN \E th \in Thresholds, to \in Timeouts : cb = CBInit(th, to)
     ELSE cb = CBNone
  /\ IF prog = "rt"
     THEN \E fn \in RetryFns, max \in Attempts, d \in InitialDelays :
             rt = RTInit(fn, max, IF fn = "retryOperation" THEN DefaultInitialDelay ELSE d)
     ELSE rt = RTNone

Next ==
  \/ NextWD
  \/ NextPW
  \/ NextCP
  \/ NextCL
  \/ NextZD
  \/ NextCC
  \/ NextCB
  \/ NextRT

Spec == Init /\ [][Next]_vars

InitWD == Init /\ prog = "wd"

SpecWD == InitWD /\ [][NextWD]_vars

InitPW == Init /\ prog = "pw"

SpecPW == InitPW /\ [][NextPW]_vars

\* the event loop delivers every pending worker event; callers need not act
FairSpecPW ==
  /\ SpecPW
  /\ \A w \in Slots : WF_vars(PWMessage(w)) /\ WF_vars(PWError(w)) /\ WF_vars(PWExit(w))

InitCP == Init /\ prog = "cp"

SpecCP == InitCP /\ [][NextCP]_vars

InitCL == Init /\ prog = "cl"

SpecCL == InitCL /\ [][NextCL]_vars

\* the bookkeeping of the cluster-demo master (cluster-demo.js:17-57): startup,
\* the workers' request notifications and the 'exit' handler.  The SIGTERM
\* handler reaches the `workers` map only through this same 'exit' handler.
NextCLReq ==
  \/ \E pid \in CLPids : CLCrash(pid)
  \/ \E pid \in CLPids : CLRequest(pid)
  \/ \E pid \in CLPids : CLRequestMsg(pid)
SpecCLReq == InitCL /\ [][NextCLReq]_vars

InitZD == Init /\ prog = "zd"

SpecZD == InitZD /\ [][NextZD]_vars

InitCC == Init /\ prog = "cc"

SpecCC == InitCC /\ [][NextCC]_vars

InitCB == Init /\ prog = "cb"

SpecCB == InitCB /\ [][NextCB]_vars

InitRT == Init /\ prog = "rt"

SpecRT == InitRT /\ [][NextRT]_vars

\* the two worker-thread pools
InitThreads == Init /\ prog \in {"wd", "pw"}
NextThreads == NextWD \/ NextPW
SpecThreads == InitThreads /\ [][NextThreads]_vars

\* the three supervisors of worker processes: the child-process pool and the
\* two cluster masters
InitSup == Init /\ prog \in {"cp", "cl", "zd"}
NextSup == NextCP \/ NextCL \/ NextZD
SpecSup == InitSup /\ [][NextSup]_vars

\* =========================================================================
\* Properties
\* =========================================================================

\* worker threads of worker-demo.js that are running a task: alive, the task
\* not yet answered, and a 'message' or 'error' still to come
WDRunning(st) ==
  {t \in Tasks : /\ st.thread[t] = "live"
                 /\ st.promise[t] = "pending"
                 /\ \E i \in 1..Len(st.events[t]) : st.events[t][i] \in {"message", "error"}}

PWBusy(st) == {w \in Slots : st.currentTask[w] # 0}

\* C1: bounded concurrency -- the number of workers simultaneously running a
\* task never exceeds the configured pool size (both worker-thread pools).
C1_BoundedConcurrency ==
  /\ Cardinality(WDRunning(wd)) <= wd.poolSize
  /\ Cardinality(PWBusy(pw)) <= pw.poolSize

\* C2: no submitted task receives more than one terminal outcome: its promise
\* is settled, or its callback invoked, at most once.
C2_AtMostOneOutcome ==
  \A t \in Tasks : wd.settles[t] <= 1 /\ pw.settles[t] <= 1 /\ cp.calls[t] <= 1

\* accepted tasks that have no outcome yet (for the persistent-worker pool:
\* those submitted before close() was called)
WDPending(st) == {t \in 1..st.submitted : st.promise[t] = "pending"}
PWPending(st) == {t \in 1..st.closedAt : st.promise[t] = "pending"}
CPPending(st) == {t \in 1..st.submitted : st.calls[t] = 0}

\* C3: no task is left pending after pool shutdown -- once terminate() /
\* close() / destroy() has run and every worker it stopped has exited, every
\* submitted task (queued or in flight at the call) has been resolved or rejected.
C3_NoTaskPendingAfterShutdown ==
  /\ (wd.termPc = Len(wd.workers) + 1 /\ \A t \in Tasks : wd.thread[t] # "live")
        => WDPending(wd) = {}
  /\ (pw.closed /\ \A w \in Slots : pw.thread[w] \in {"none", "exited"})
        => PWPending(pw) = {}
  /\ (cp.destroyed /\ cp.killed = {})
        => CPPending(cp) = {}

CPAlive(st) == {p \in Pids : st.proc[p] = "alive"}

\* C4 (as stated): at most `size` worker processes are alive at any time, also
\* while a crashed worker is replaced and while a rolling restart runs.
C4_AtMostSizeAlive ==
  /\ Cardinality(CLAlive(cl)) <= cl.numCPUs
  /\ Cardinality(CPAlive(cp)) <= cp.size
  /\ Cardinality(ZDAlive(zd)) <= zd.numCPUs

\* C4 (amended): crash replacement never exceeds `size`; a rolling restart
\* exceeds it only by the replacements it has forked whose retired worker has
\* not exited after its disconnect.
C4_AliveBoundedByRestartSurplus ==
  /\ Cardinality(CLAlive(cl)) <= cl.numCPUs
  /\ Cardinality(CPAlive(cp)) <= cp.size
  /\ Cardinality(ZDAlive(zd)) <= zd.numCPUs + zd.restartForks - zd.retiredExits

\* a rolling restart has forked a replacement while the old worker still runs,
\* after a crashed worker was replaced
C4_Witness ==
  /\ prog = "zd"
  /\ zd.crashes > 0
  /\ zd.restartForks > 0
  /\ Cardinality(ZDAlive(zd)) > zd.numCPUs

\* the tasks waiting in each pool's queue
WDQueued(st) == {st.queue[i].task : i \in 1..Len(st.queue)}
PWQueued(st) == SeqToSet(st.queue)
CPQueued(st) == {st.queue[i].callback : i \in 1..Len(st.queue)}

\* no task has been started while a task submitted before it still waits:
\* every submitted task is started at once or queued, and task numbers follow
\* submission order
FifoStart(queued, submitted) ==
  \A a \in queued, b \in (1..submitted) \ queued : b < a

\* C5: FIFO start order -- for tasks A submitted before B, B is never started
\* while A is still waiting, also for a submission made inside a completion callback.
C5_FifoStartOrder ==
  /\ FifoStart(WDQueued(wd), wd.submitted)
  /\ FifoStart(PWQueued(pw), pw.submitted)
  /\ FifoStart(CPQueued(cp), cp.submitted)

\* tasks of the child-process pool that no one holds any more: not answered,
\* not queued, and on no worker of the pool
CPDropped(st) ==
  {t \in 1..st.submitted :
     /\ st.calls[t] = 0
     /\ t \notin CPQueued(st)
     /\ ~\E i \in 1..Len(st.workers) : st.workers[i].busy /\ st.workers[i].callback = t}

\* C6: crash recovery -- when a worker dies while running a task, the task is
\* re-enqueued or resolved with a failure; it is never silently dropped.
C6_CrashedTaskNotDropped ==
  /\ CPDropped(cp) = {}
  /\ \A t \in Tasks : wd.exitCode[t] > 0 => wd.promise[t] # "pending"

PWLive(st) == {w \in 1..st.poolSize : st.thread[w] \in {"alive", "failing"}}

\* C7: while the pool is running, a worker that dies is eventually replaced:
\* the live-worker count returns to `size`.
C7_LiveCountRestored ==
  /\ [](( ~pw.closed /\ Cardinality(PWLive(pw)) < pw.poolSize)
          => <>(pw.closed \/ Cardinality(PWLive(pw)) = pw.poolSize))
  /\ [](Cardinality(CLAlive(cl)) < cl.numCPUs => <>(Cardinality(CLAlive(cl)) = cl.numCPUs))
  /\ [](( ~cp.destroyed /\ Cardinality(CPAlive(cp)) < cp.size)
          => <>(cp.destroyed \/ Cardinality(CPAlive(cp)) = cp.size))

\* C8: once shutdown has been initiated (SIGTERM in the cluster master,
\* destroy() in the process pool) no new worker is created.
C8_NoForkAfterShutdown ==
  [][ /\ cl.sigterms > 0 => cl'.forked = cl.forked
      /\ cp.destroyed => cp'.forked = cp.forked ]_vars

\* the queue capacity and crash budget the pool is configured with
QueueCapacity == 1
CrashBudget == 1

\* C9: backpressure -- the pending-task queue never holds more than
\* queueCapacity tasks.
C9_QueueWithinCapacity ==
  /\ Len(wd.queue) <= QueueCapacity
  /\ Len(pw.queue) <= QueueCapacity
  /\ Len(cp.queue) <= QueueCapacity

\* C10: crash budget -- a crash that brings the number of crashes above
\* crashBudget is not answered with a respawn.
C10_NoRespawnBeyondBudget ==
  [][ cl'.crashes > CrashBudget => cl'.forked = cl.forked ]_vars

\* workers of the persistent-worker pool that can still be given work: on the
\* free list, or running a task whose completion returns them to it
PWAvailable(st) ==
  {w \in 1..st.poolSize : st.currentTask[w] # 0 \/ w \in SeqToSet(st.freeWorkers)}

\* slots of worker-demo.js that are idle or hold a worker that is still running
WDAvailable(st) ==
  {s \in 1..st.poolSize :
     \/ ~st.workers[s].busy
     \/ st.workers[s].worker # 0 /\ st.thread[st.workers[s].worker] = "live"}

\* C11: a task's execution error does not cost a worker -- the step that
\* handles the error reports it to the task's caller (a pending promise is
\* rejected, the callback is called) and leaves as many workers able to take
\* tasks as there were before it.
C11_ErrorKeepsWorker ==
  [][ /\ \A t \in Tasks : WDError(t) =>
            /\ wd.promise[t] = "pending" => wd'.promise[t] = "rejected"
            /\ Cardinality(WDAvailable(wd')) >= Cardinality(WDAvailable(wd))
      /\ \A w \in Slots : (PWError(w) /\ pw.currentTask[w] # 0) =>
            /\ pw'.promise[pw.currentTask[w]] = "rejected"
            /\ Cardinality(PWAvailable(pw')) = Cardinality(PWAvailable(pw))
      /\ \A pid \in Pids : (CPMessage(pid) /\ Head(cp.inbox[pid]).reply = "error") =>
            /\ \E t \in Tasks : cp'.calls[t] = cp.calls[t] + 1
            /\ Len(cp'.workers) = Len(cp.workers) ]_vars

\* C12: outcome isolation -- an event produced by a worker while running task
\* T settles or calls back T's caller only: the step that handles it leaves
\* the promise / callback of every other task untouched, also when the
\* worker or slot has meanwhile been given a later task.
C12_OutcomeIsolation ==
  [][ /\ \A t \in Tasks : (WDMessage(t) \/ WDError(t) \/ WDExit(t)) =>
            \A u \in Tasks \ {t} : wd'.promise[u] = wd.promise[u]
      /\ \A w \in Slots : (PWMessage(w) \/ PWError(w)) =>
            \A u \in Tasks \ {Head(pw.events[w]).task} : pw'.promise[u] = pw.promise[u]
      /\ \A pid \in Pids : CPMessage(pid) =>
            \A u \in Tasks \ {Head(cp.inbox[pid]).task} : cp'.calls[u] = cp.calls[u] ]_vars

\* C13: after shutdown has begun (terminate() / close() / destroy() was
\* called) no new submission is accepted: a task not yet submitted is not
\* left pending, queued or started by any later step.
C13_NoSubmitAfterShutdown ==
  [][ /\ wd.termPc # 0 =>
            \A t \in Tasks : wd.promise[t] = "none" =>
               /\ wd'.promise[t] \in {"none", "rejected"}
               /\ wd'.thread[t] = "none"
               /\ t \notin WDQueued(wd')
      /\ pw.closed =>
            \A t \in Tasks : pw.promise[t] = "none" =>
               /\ pw'.promise[t] \in {"none", "rejected"}
               /\ t \notin PWQueued(pw')
               /\ \A w \in Slots : pw'.currentTask[w] # t
      /\ cp.destroyed =>
            \A t \in Tasks : t > cp.submitted =>
               /\ t \notin CPQueued(cp')
               /\ \A i \in 1..Len(cp'.workers) : cp'.workers[i].callback # t ]_vars

\* workers of the persistent-worker pool that are running a task and will answer it
PWRunning(st) ==
  {w \in 1..st.poolSize : /\ st.currentTask[w] # 0
                          /\ st.events[w] # <<>>
                          /\ Head(st.events[w]).ev = "message"}

\* C14: shutdown drains -- no step (terminate() / close() included) stops a
\* worker that is running an accepted task: a running task keeps running
\* until it has its outcome.
C14_ShutdownDrains ==
  [][ /\ \A t \in WDRunning(wd) : t \in WDRunning(wd') \/ wd'.promise[t] # "pending"
      /\ \A w \in PWRunning(pw) :
            w \in PWRunning(pw') \/ pw'.promise[pw.currentTask[w]] # "pending" ]_vars

\* C15: shutdown deadline -- when a grace timer fires, its worker is forcibly
\* terminated, and work that did not finish in time is reported as a shutdown
\* timeout: a worker that ends under shutdown without having crashed had
\* begun to close, so that it ended by its server.close() callback or by its
\* own forced-shutdown timer, the one path that reports the timeout.
C15_DeadlineReported ==
  [][ \A pid \in CLPids :
        /\ CLKillTimer(pid) => pid \in cl'.killed
        /\ ( /\ cl.sigterms > 0
             /\ pid \in CLAlive(cl)
             /\ cl'.state[pid] = "exited"
             /\ cl'.crashes = cl.crashes )
             => cl.state[pid] = "closing" ]_vars

\* C16: idempotent shutdown -- a second SIGTERM in the master, and a second
\* 'shutdown' message in a worker that is already closing, start no further
\* timers, messages or kill actions.
C16_SecondShutdownNoOp ==
  [][ /\ (cl.sigterms > 0 /\ cl'.sigterms > cl.sigterms) =>
            /\ cl'.killTimers = cl.killTimers
            /\ cl'.shutdownMsgs = cl.shutdownMsgs
      /\ \A pid \in CLPids :
            (cl.state[pid] = "closing" /\ CLShutdownMsg(pid)) =>
               cl'.forceTimers[pid] = cl.forceTimers[pid] ]_vars

\* C17: slot cycle Idle -> Busy -> Idle -- a slot (worker) that is busy holds
\* a task that has no terminal outcome yet: once the task is resolved or
\* rejected, by a message, an 'error' or a non-zero 'exit', its slot is idle
\* again or has been given another task.
C17_BusySlotHoldsOpenTask ==
  /\ \A s \in 1..wd.poolSize :
        wd.workers[s].busy =>
           /\ wd.workers[s].worker # 0
           /\ wd.promise[wd.workers[s].worker] = "pending"
  /\ \A i \in 1..Len(cp.workers) :
        cp.workers[i].busy => cp.calls[cp.workers[i].callback] = 0

\* worker-demo.js with every event a worker thread emits eventually handled
FairSpecWD ==
  SpecWD /\ \A t \in Tasks :
              WF_vars(WDMessage(t)) /\ WF_vars(WDError(t)) /\ WF_vars(WDExit(t))

\* C18: the scheduler never waits indefinitely for a worker -- every task
\* that was given to a worker is eventually resolved or rejected, also when
\* the worker sends neither a message nor an error for it.
C18_StartedEventuallySettled ==
  /\ \A t \in Tasks :
        [](( wd.thread[t] = "live" /\ wd.promise[t] = "pending")
              => <>(wd.promise[t] # "pending"))
  /\ \A t \in Tasks :
        [](( pw.promise[t] = "pending" /\ \E w \in Slots : pw.currentTask[w] = t)
              => <>(pw.promise[t] # "pending"))

\* C19: respawn is delayed by backoff -- the step that handles a worker's
\* crash leaves no replacement alive and able to take work: a replacement
\* appears only in a later step, after the backoff delay.
C19_RespawnDelayed ==
  [][ /\ cl'.crashes > cl.crashes => CLAlive(cl') \subseteq CLAlive(cl)
      /\ \A pid \in Pids :
            (CPExit(pid) /\ pid \notin cp.killed) => CPAlive(cp') \subseteq CPAlive(cp) ]_vars

\* workers of the zero-downtime master that serve requests: listening and
\* not told to disconnect
ZDServing(st) ==
  {p \in CLPids : st.state[p] = "listening" /\ ~st.exitedAfterDisconnect[p]}

\* C20: zero-downtime restart ordering -- an old worker is disconnected only
\* by a restart whose replacement for it has emitted 'listening', and, absent
\* crashes, the number of workers able to serve requests never drops below
\* the original worker count.
C20_RestartKeepsCapacity ==
  /\ [](zd.crashes = 0 => Cardinality(ZDServing(zd)) >= zd.numCPUs)
  /\ [][ \A pid \in CLPids :
           (~zd.exitedAfterDisconnect[pid] /\ zd'.exitedAfterDisconnect[pid]) =>
              \E c \in 1..Len(zd.chains) :
                 /\ zd.chains[c].worker = pid
                 /\ zd'.state[zd.chains[c].newWorker] # "starting" ]_vars

\* a restart has disconnected an old worker after its replacement began to
\* listen, and no worker has crashed
C20_Witness ==
  /\ prog = "zd"
  /\ zd.crashes = 0
  /\ \E c \in 1..Len(zd.chains) :
        /\ zd.chains[c].stage = "waitTimer"
        /\ zd.exitedAfterDisconnect[zd.chains[c].worker]
        /\ zd.chains[c].worker \in ZDAlive(zd)
        /\ zd.state[zd.chains[c].newWorker] = "listening"

\* C21: respawn only on crash -- the step in which a worker of the
\* zero-downtime master exits forks exactly one replacement if the worker
\* had not been disconnected by the master, and forks nothing if it had.
C21_RespawnIffNotDisconnected ==
  [][ \A pid \in CLPids :
        (pid \in ZDAlive(zd) /\ zd'.state[pid] = "exited") =>
           /\ ~zd.exitedAfterDisconnect[pid] =>
                 /\ zd'.forked = zd.forked + 1
                 /\ zd'.state[zd'.forked] = "starting"
           /\ zd.exitedAfterDisconnect[pid] => zd'.forked = zd.forked ]_vars

\* a retired worker has left without respawn and a crashed worker was respawned
C21_Witness ==
  /\ prog = "zd"
  /\ zd.retiredExits > 0
  /\ zd.crashes > 0
  /\ zd.forked > zd.numCPUs + zd.restartForks

\* C22: rolling restart converges -- when the one restart that was requested
\* has run to completion ('All workers restarted', the retired workers gone),
\* the workers list holds exactly the original number of workers and none
\* that the restart disconnected, also when a worker crashed meanwhile.
C22_RestartConverges ==
  ( /\ Len(zd.chains) = 1
    /\ zd.chains[1].stage = "done"
    /\ zd.leaving = {} )
  => /\ Len(zd.workers) = zd.numCPUs
     /\ \A i \in 1..Len(zd.workers) : ~zd.exitedAfterDisconnect[zd.workers[i]]

\* C23: work conservation in the worker-thread pools -- between event
\* handlers, a non-empty queue means no worker is idle: every slot of
\* worker-demo.js is busy, and freeWorkers of the persistent-worker pool is empty.
C23_WorkConserving ==
  /\ Len(wd.queue) > 0 => \A s \in 1..wd.poolSize : wd.workers[s].busy
  /\ Len(pw.queue) > 0 => pw.freeWorkers = <<>>

\* a handler has finished a task and tasks still wait in the queue
C23_Witness ==
  \/ /\ prog = "wd"
     /\ Len(wd.queue) > 0
     /\ \E t \in Tasks : wd.promise[t] = "resolved"
  \/ /\ prog = "pw"
     /\ Len(pw.queue) > 0
     /\ \E t \in Tasks : pw.promise[t] = "resolved"

\* the child-process pool with every message a worker has sent eventually handled
FairSpecCP == SpecCP /\ \A pid \in Pids : WF_vars(CPMessage(pid))

\* workers of the pool that are idle and whose process is alive
CPIdle(st) ==
  {i \in 1..Len(st.workers) : ~st.workers[i].busy /\ st.proc[st.workers[i].pid] = "alive"}

\* C24: queue progress after a crash -- a task that waits in the queue while
\* the pool holds an idle live worker (the replacement createWorker made for
\* a worker that exited) is eventually dispatched, whether or not another
\* worker completes a task.
C24_QueuedEventuallyDispatched ==
  \A t \in Tasks :
    [](( t \in CPQueued(cp) /\ CPIdle(cp) # {} /\ ~cp.destroyed)
         => <>(t \notin CPQueued(cp) \/ cp.destroyed))

\* the tasks whose events a worker thread still has to deliver
PWInFlight(st, w) ==
  {st.events[w][i].task : i \in 1..Len(st.events[w])} \ {0}

\* C25: free-list integrity of the persistent-worker pool -- no worker is in
\* freeWorkers twice, no worker in freeWorkers has a currentTask, a worker
\* never has two posted tasks in flight (a task is posted only to a worker
\* whose currentTask is null), every result message still to be delivered
\* belongs to its worker's currentTask, and the 'message' handler has never
\* run with currentTask null.
C25_FreeListIntegrity ==
  /\ \A i, j \in 1..Len(pw.freeWorkers) :
        pw.freeWorkers[i] = pw.freeWorkers[j] => i = j
  /\ \A i \in 1..Len(pw.freeWorkers) : pw.currentTask[pw.freeWorkers[i]] = 0
  /\ \A w \in Slots :
        /\ Cardinality(PWInFlight(pw, w)) <= 1
        /\ \A i \in 1..Len(pw.events[w]) :
              pw.events[w][i].ev = "message" => pw.events[w][i].task = pw.currentTask[w]
  /\ ~pw.uncaught

\* a result was delivered, its worker went back on the free list, and a later
\* task was posted to a worker
C25_Witness ==
  /\ prog = "pw"
  /\ \E t \in Tasks : pw.promise[t] = "resolved"
  /\ \E w \in Slots : pw.currentTask[w] # 0 /\ pw.promise[pw.currentTask[w]] = "pending"
                      /\ \E t \in Tasks : t < pw.currentTask[w] /\ pw.promise[t] = "resolved"

\* C26: cluster bookkeeping -- the `workers` map holds exactly the pids that
\* were forked and have not emitted 'exit', its size is numCPUs after startup
\* and after every 'exit' handler, and a 'request' message from a worker that
\* is no longer in the map changes no counter.
C26_ClusterBookkeeping ==
  /\ [](/\ cl.workers = CLAlive(cl)
        /\ Cardinality(cl.workers) = cl.numCPUs)
  /\ [][ \A pid \in CLPids :
           (CLRequestMsg(pid) /\ pid \notin cl.workers) => cl'.requests = cl.requests ]_vars

\* a worker was replaced while its request notification was in flight, and
\* a live worker's notification has been counted
C26_Witness ==
  /\ prog = "cl"
  /\ \E pid \in CLPids : cl.state[pid] = "exited" /\ cl.requestMsgs[pid] > 0
  /\ \E pid \in cl.workers : cl.requests[pid] > 0

\* the processItem calls of concurrency() that are in flight
CCInFlight(st) == {i \in Items : st.task[i] = "running"}

\* C27: controlled concurrency -- with limit >= 1 and processItem calls that
\* all succeed, at most `limit` processItem calls are in flight at any time,
\* no item is processed twice, and when concurrency() returns every item has
\* been processed once and the results are in item order.
C27_ControlledConcurrency ==
  /\ Cardinality(CCInFlight(cc)) <= cc.limit
  /\ \A i \in Items : cc.calls[i] <= 1
  /\ cc.pc = "done" =>
        /\ \A i \in 1..Len(cc.items) : cc.calls[i] = 1
        /\ cc.returned = [k \in 1..Len(cc.items) |-> ProcessItem(cc.items[k])]

\* concurrency() has returned for a list longer than the limit, with items
\* of different values
C27_Witness ==
  /\ prog = "cc"
  /\ cc.pc = "done"
  /\ Len(cc.items) > cc.limit
  /\ cc.limit > 1
  /\ \E j, k \in 1..Len(cc.items) : cc.items[j] # cc.items[k]

\* C28: CircuitBreaker state machine -- the breaker goes from CLOSED to OPEN
\* exactly when failureCount reaches failureThreshold and a success resets
\* failureCount to 0; while OPEN before nextAttempt execute() throws without
\* invoking the request; after nextAttempt the next execute() runs as
\* HALF_OPEN, the success of that trial returns the breaker to CLOSED and its
\* failure returns it to OPEN with a new nextAttempt.
C28_BreakerStateMachine ==
  [][ /\ (cb.state = "CLOSED" /\ cb'.state = "OPEN")
           => cb'.failureCount >= cb.failureThreshold
      /\ \A c \in Calls :
           /\ (CBFailure(c) /\ cb.state = "CLOSED"
                 /\ cb.failureCount + 1 >= cb.failureThreshold) => cb'.state = "OPEN"
           /\ CBSuccess(c) => cb'.failureCount = 0
           /\ (CBSuccess(c) /\ cb.trial[c]) => cb'.state = "CLOSED"
           /\ (CBFailure(c) /\ cb.trial[c]) =>
                 cb'.state = "OPEN" /\ cb'.nextAttempt = cb.now + cb.timeout
      /\ (CBExecute /\ cb.state = "OPEN") =>
           IF cb.now < cb.nextAttempt
           THEN cb'.call[cb'.started] = "refused" /\ cb'.requests = cb.requests
           ELSE cb'.state = "HALF_OPEN" /\ cb'.trial[cb'.started]
    ]_vars

====
